---- MODULE Spec2Model ----
(***************************************************************************)
(* Model of backend/main.py: a FastAPI proxy that authenticates a caller   *)
(* (Supabase), enforces a per-user sliding-log request quota and forwards  *)
(* the prompt to the OpenAI responses API.                                 *)
(*                                                                         *)
(* Both handlers are coroutines (async def) that contain no await: the     *)
(* calls to supabase.auth.get_user and client.responses.create are         *)
(* synchronous calls made on the event-loop thread.  A handler invocation  *)
(* therefore runs from its start to its response without yielding, and the *)
(* model lets a new invocation start only when no other one is in flight.  *)
(* Time is time.time() in whole seconds: the wall clock, which an          *)
(* adjustment can set back.                                                *)
(***************************************************************************)
EXTENDS Integers, Sequences, FiniteSets, TLC

\* ------------------------------------------------------------ constants
RATE_LIMIT_REQUESTS == 10

RATE_LIMIT_WINDOW == 60

MODELS == << "gpt-4", "gpt-4-turbo", "gpt-4o", "gpt-4o-mini", "gpt-4.1",
             "gpt-4.1-mini", "gpt-4.1-nano", "gpt-4.5-preview",
             "o1-preview", "o1-mini", "o1", "o3-mini", "o3", "o3-pro",
             "o4-mini", "gpt-5", "gpt-5-mini", "gpt-5-nano" >>

\* ------------------------------------------------------------ bounds
\* Concurrent handler invocations (connections being served).
MaxSlots == 2

\* The clock runs from 0 to MaxTime.
MaxTime == 60

\* POST requests are accepted while fewer than MaxAdmitted attempts, of all
\* identities together, have been admitted.
MaxAdmitted == 12

\* The wall clock is set back at most MaxSetbacks times.
MaxSetbacks == 1

\* The clock is set back only while fewer than MaxAdmittedSetBack attempts
\* have been admitted, and from then on POST requests are accepted while
\* fewer than that have been.
MaxAdmittedSetBack == 4

Slots == 1..MaxSlots

\* The instants at which the clock is observed: the start and the last two
\* seconds, so that entries of age 0, 1, MaxTime - 1 and MaxTime occur.
Instants == {0, MaxTime - 1, MaxTime}

\* ------------------------------------------------------------ inputs
Users == {"u1", "u2"}

NoCred == "<no Authorization header>"

\* Bearer tokens: one the identity provider does not know, one per user.
Tokens == {"bad", "tok_u1", "tok_u2"}

Creds == {NoCred} \cup Tokens

TokenUser(tok) == IF tok = "tok_u1" THEN "u1" ELSE IF tok = "tok_u2" THEN "u2" ELSE ""

\* Request bodies (ModelRequest): supported models with and without web
\* search, and a model outside the allow-list.  temperature is validated by
\* the framework and never read by the handler.
Bodies ==
    { [model |-> "gpt-4o", prompt |-> "hello", web_search |-> FALSE],
      [model |-> "o3-mini", prompt |-> "bye", web_search |-> TRUE],
      [model |-> "not-a-real-model", prompt |-> "hello", web_search |-> FALSE] }

\* A POST /invoke_model: its Authorization header and its body.
Requests ==
    { [kind |-> "invoke", cred |-> c, model |-> b.model, prompt |-> b.prompt,
       web_search |-> b.web_search] : c \in Creds, b \in Bodies }

HealthReq == [kind |-> "health", cred |-> NoCred, model |-> "", prompt |-> "",
              web_search |-> FALSE]

NoReq == [kind |-> "none", cred |-> NoCred, model |-> "", prompt |-> "",
          web_search |-> FALSE]

\* What the upstream gateway can answer: a completion, or an exception.
GatewayBodies == {"completion"}

GatewayErrors == {"timeout", "invalid_api_key"}

\* ------------------------------------------------------------ responses
NoResp == [status |-> 0, detail |-> "", models |-> << >>, limit |-> 0,
           window |-> 0, body |-> ""]

HTTPException(status_code, detail) ==
    [status |-> status_code, detail |-> detail, models |-> << >>, limit |-> 0,
     window |-> 0, body |-> ""]

RateLimitExceeded ==
    [status |-> 429, detail |-> "Rate limit exceeded. Maximum <N> requests per <W> seconds.",
     models |-> << >>, limit |-> RATE_LIMIT_REQUESTS, window |-> RATE_LIMIT_WINDOW,
     body |-> ""]

ModelNotFound(model) ==
    [status |-> 400,
     detail |-> "Model '<model>' is not found in the list of models. Allowed models: <list>",
     models |-> MODELS, limit |-> 0, window |-> 0, body |-> model]

\* The exception's text returned to the caller.
UpstreamFailedLeak(e) == HTTPException(500, e)

\* invoke_model, lines 182-184: the answer to an upstream exception e.
UpstreamFailed(e) == HTTPException(500, "Failed to process request with OpenAI")

Ok(body) == [status |-> 200, detail |-> "", models |-> << >>, limit |-> 0,
             window |-> 0, body |-> body]

\* ------------------------------------------------------------ state
VARIABLES
    now,                  \* time.time()
    setbacks,             \* how often the wall clock has been set back
    user_request_counts,  \* identity -> list of admitted request times
    pc,                   \* slot -> position of its handler invocation
    req,                  \* slot -> the request it serves
    user_id,              \* slot -> current_user['sub'] once authenticated
    current_time,         \* slot -> check_rate_limit's local current_time
    resp,                 \* slot -> the response produced
    upstream_calls,       \* slot -> client.responses.create calls made
    logged,               \* slot -> upstream error text written to the log
    allowed,              \* slot -> what check_rate_limit returned to it
    admitted              \* identity -> every time check_rate_limit returned True

vars == << now, setbacks, user_request_counts, pc, req, user_id, current_time, resp,
           upstream_calls, logged, allowed, admitted >>

\* ------------------------------------------------------------ helpers
Contains(seq, x) == \E i \in 1..Len(seq) : seq[i] = x

\* Handlers run on worker threads, every one free to start at once.
LoopFreeThreaded(s) == TRUE

\* No other handler invocation is in flight: the event loop is free to run
\* slot s.  A coroutine without await holds the loop until it returns.
LoopFree(s) == \A o \in Slots \ {s} : pc[o] = "idle"

\* verify_supabase_token: what supabase.auth.get_user can do with a token.
\* "user": response.user is set; "nouser": it is not; "error": it raised.
AuthOutcomes(tok) ==
    IF TokenUser(tok) # "" THEN {"user", "error"} ELSE {"nouser", "error"}

\* A verification that falls back to a default identity when it fails.
verify_supabase_tokenFailOpen(tok, outcome) ==
    IF outcome = "user" THEN TokenUser(tok) ELSE "u1"

\* The dict verify_supabase_token returns, reduced to its 'sub'; "" is None.
verify_supabase_token(tok, outcome) ==
    IF outcome = "user" THEN TokenUser(tok) ELSE ""

\* security = HTTPBearer(): auto_error is left at True, so a request without
\* an Authorization header is refused by the dependency itself, with
\* "Not authenticated" (403 in older FastAPI releases, 401 in newer ones).
BearerStatuses == {403, 401}

HTTPBearerRefuses(r) == r.cred = NoCred

\* get_current_user, line 119: credentials is never empty when it runs.
CredentialsMissing(credentials) == credentials = ""

\* The filter with the boundary second kept (<= for <).
PurgeInclusive(times, t) ==
    SelectSeq(times, LAMBDA req_time : t - req_time <= RATE_LIMIT_WINDOW)

\* The filtered list not stored back.
PurgeDropped(times, t) == times

\* check_rate_limit, lines 103-106.
Purge(times, t) == SelectSeq(times, LAMBDA req_time : t - req_time < RATE_LIMIT_WINDOW)

\* The comparison off by one (> for >=).
LimitExceededOffByOne(times) == Len(times) > RATE_LIMIT_REQUESTS

\* check_rate_limit, line 109.
LimitExceeded(times) == Len(times) >= RATE_LIMIT_REQUESTS

\* The attempt recorded before the limit is looked at.
RecordedAlways(times, t) == Append(times, t)

\* check_rate_limit, lines 109-114: the list the call leaves behind.
Recorded(times, t) == IF LimitExceeded(times) THEN times ELSE Append(times, t)

\* The web-search tool attached to every call.
ToolsAlways(web_search) == << [type |-> "web_search_preview"] >>

\* invoke_model, lines 170-172.
Tools(web_search) ==
    IF web_search THEN << [type |-> "web_search_preview"] >> ELSE << >>

\* The membership test left out.
SupportedAny(model) == TRUE

\* invoke_model, line 164.
Supported(model) == Contains(MODELS, model)

\* One list for all identities.
BucketShared(uid) == "u1"

\* The key of an identity's list in user_request_counts, lines 103-113.
Bucket(uid) == uid

RECURSIVE SumLen(_, _)
SumLen(f, S) ==
    IF S = {} THEN 0
    ELSE LET u == CHOOSE x \in S : TRUE IN Len(f[u]) + SumLen(f, S \ {u})

Budget ==
    SumLen(admitted, Users) <
        IF setbacks = 0 THEN MaxAdmitted ELSE MaxAdmittedSetBack

\* ------------------------------------------------------------ Init
Init ==
    /\ now = 0
    /\ setbacks = 0
    /\ user_request_counts = [u \in Users |-> << >>]
    /\ pc = [s \in Slots |-> "idle"]
    /\ req = [s \in Slots |-> NoReq]
    /\ user_id = [s \in Slots |-> ""]
    /\ current_time = [s \in Slots |-> 0]
    /\ resp = [s \in Slots |-> NoResp]
    /\ upstream_calls = [s \in Slots |-> << >>]
    /\ logged = [s \in Slots |-> ""]
    /\ allowed = [s \in Slots |-> "none"]
    /\ admitted = [u \in Users |-> << >>]

\* ------------------------------------------------------------ actions
\* time.time() changes, whatever the handlers are doing: it moves on, or an
\* adjustment of the wall clock sets it back.
Tick(t) ==
    /\ t # now
    /\ t < now =>
          /\ setbacks < MaxSetbacks
          /\ SumLen(admitted, Users) < MaxAdmittedSetBack
    /\ now' = t
    /\ setbacks' = IF t < now THEN setbacks + 1 ELSE setbacks
    /\ UNCHANGED << user_request_counts, pc, req, user_id, current_time, resp,
                    upstream_calls, logged, allowed, admitted >>

Respond(s, r) ==
    /\ resp' = [resp EXCEPT ![s] = r]
    /\ pc' = [pc EXCEPT ![s] = "done"]

\* GET /health.
health_check(s) ==
    /\ pc[s] = "idle"
    /\ LoopFree(s)
    /\ req' = [req EXCEPT ![s] = HealthReq]
    /\ Respond(s, Ok("healthy"))
    /\ UNCHANGED << now, setbacks, user_request_counts, user_id, current_time,
                    upstream_calls, logged, allowed, admitted >>

\* POST /invoke_model arrives: the security dependency and the start of
\* get_current_user, up to the call of supabase.auth.get_user.
get_current_user(s, r) ==
    /\ pc[s] = "idle"
    /\ LoopFree(s)
    /\ Budget
    /\ req' = [req EXCEPT ![s] = r]
    /\ IF HTTPBearerRefuses(r)
       THEN \E st \in BearerStatuses : Respond(s, HTTPException(st, "Not authenticated"))
       ELSE IF CredentialsMissing(r.cred)
       THEN Respond(s, HTTPException(401, "Authorization header missing"))
       ELSE /\ pc' = [pc EXCEPT ![s] = "auth_wait"]
            /\ UNCHANGED resp
    /\ UNCHANGED << now, setbacks, user_request_counts, user_id, current_time,
                    upstream_calls, logged, allowed, admitted >>

\* supabase.auth.get_user comes back; get_current_user, lines 123-128.
AuthReturn(s, outcome) ==
    /\ pc[s] = "auth_wait"
    /\ outcome \in AuthOutcomes(req[s].cred)
    /\ LET payload == verify_supabase_token(req[s].cred, outcome) IN
       IF payload = ""
       THEN /\ Respond(s, HTTPException(401, "Invalid or expired token"))
            /\ UNCHANGED user_id
       ELSE /\ user_id' = [user_id EXCEPT ![s] = payload]
            /\ pc' = [pc EXCEPT ![s] = "rate"]
            /\ UNCHANGED resp
    /\ UNCHANGED << now, setbacks, user_request_counts, req, current_time,
                    upstream_calls, logged, allowed, admitted >>

\* check_rate_limit, lines 100-106: read the clock, drop the old entries.
RateLimitPurge(s) ==
    /\ pc[s] = "rate"
    /\ current_time' = [current_time EXCEPT ![s] = now]
    /\ user_request_counts' =
         [user_request_counts EXCEPT ![Bucket(user_id[s])] = Purge(@, now)]
    /\ pc' = [pc EXCEPT ![s] = "crl_check"]
    /\ UNCHANGED << now, setbacks, req, user_id, resp, upstream_calls, logged, allowed, admitted >>

\* check_rate_limit, lines 109-114, and invoke_model, lines 155-160.
RateLimitCheck(s) ==
    /\ pc[s] = "crl_check"
    /\ user_request_counts' =
         [user_request_counts EXCEPT ![Bucket(user_id[s])] =
            Recorded(@, current_time[s])]
    /\ IF LimitExceeded(user_request_counts[Bucket(user_id[s])])
       THEN /\ allowed' = [allowed EXCEPT ![s] = "false"]
            /\ Respond(s, RateLimitExceeded)
            /\ UNCHANGED admitted
       ELSE /\ allowed' = [allowed EXCEPT ![s] = "true"]
            /\ admitted' = [admitted EXCEPT ![user_id[s]] = Append(@, current_time[s])]
            /\ pc' = [pc EXCEPT ![s] = "admitted"]
            /\ UNCHANGED resp
    /\ UNCHANGED << now, setbacks, req, user_id, current_time, upstream_calls, logged >>

\* invoke_model, lines 162-179: validate the model, build the tools, call
\* client.responses.create.
CallGateway(s) ==
    /\ pc[s] = "admitted"
    /\ IF ~Supported(req[s].model)
       THEN /\ Respond(s, ModelNotFound(req[s].model))
            /\ UNCHANGED upstream_calls
       ELSE /\ upstream_calls' =
                 [upstream_calls EXCEPT ![s] =
                    Append(@, [model |-> req[s].model, input |-> req[s].prompt,
                               tools |-> Tools(req[s].web_search)])]
            /\ pc' = [pc EXCEPT ![s] = "gateway_wait"]
            /\ UNCHANGED resp
    /\ UNCHANGED << now, setbacks, user_request_counts, req, user_id, current_time,
                    logged, allowed, admitted >>

\* A failed upstream call tried once more before giving up.
GatewayReturnRetry(s, outcome) ==
    /\ pc[s] = "gateway_wait"
    /\ IF outcome \in GatewayErrors /\ Len(upstream_calls[s]) < 2
       THEN /\ upstream_calls' =
                 [upstream_calls EXCEPT ![s] = Append(@, upstream_calls[s][1])]
            /\ UNCHANGED << pc, resp, logged >>
       ELSE /\ IF outcome \in GatewayErrors
               THEN /\ logged' = [logged EXCEPT ![s] = outcome]
                    /\ Respond(s, UpstreamFailed(outcome))
               ELSE /\ Respond(s, Ok(outcome))
                    /\ UNCHANGED logged
            /\ UNCHANGED upstream_calls
    /\ UNCHANGED << now, setbacks, user_request_counts, req, user_id, current_time,
                    allowed, admitted >>

\* An upstream failure that gives the attempt's quota slot back.
GatewayReturnRollback(s, outcome) ==
    /\ pc[s] = "gateway_wait"
    /\ IF outcome \in GatewayErrors
       THEN /\ logged' = [logged EXCEPT ![s] = outcome]
            /\ Respond(s, UpstreamFailed(outcome))
            /\ user_request_counts' =
                 [user_request_counts EXCEPT ![Bucket(user_id[s])] =
                    SubSeq(@, 1, Len(@) - 1)]
       ELSE /\ Respond(s, Ok(outcome))
            /\ UNCHANGED << logged, user_request_counts >>
    /\ UNCHANGED << now, setbacks, req, user_id, current_time, upstream_calls,
                    allowed, admitted >>

\* client.responses.create comes back; invoke_model, lines 180-184.
GatewayReturn(s, outcome) ==
    /\ pc[s] = "gateway_wait"
    /\ IF outcome \in GatewayErrors
       THEN /\ logged' = [logged EXCEPT ![s] = outcome]
            /\ Respond(s, UpstreamFailed(outcome))
       ELSE /\ Respond(s, Ok(outcome))
            /\ UNCHANGED logged
    /\ UNCHANGED << now, setbacks, user_request_counts, req, user_id, current_time,
                    upstream_calls, allowed, admitted >>

\* The response has been sent; the invocation ends.
Close(s) ==
    /\ pc[s] = "done"
    /\ pc' = [pc EXCEPT ![s] = "idle"]
    /\ req' = [req EXCEPT ![s] = NoReq]
    /\ user_id' = [user_id EXCEPT ![s] = ""]
    /\ current_time' = [current_time EXCEPT ![s] = 0]
    /\ resp' = [resp EXCEPT ![s] = NoResp]
    /\ upstream_calls' = [upstream_calls EXCEPT ![s] = << >>]
    /\ logged' = [logged EXCEPT ![s] = ""]
    /\ allowed' = [allowed EXCEPT ![s] = "none"]
    /\ UNCHANGED << now, setbacks, user_request_counts, admitted >>

Step(s) ==
    \/ health_check(s)
    \/ \E r \in Requests : get_current_user(s, r)
    \/ \E o \in {"user", "nouser", "error"} : AuthReturn(s, o)
    \/ RateLimitPurge(s)
    \/ RateLimitCheck(s)
    \/ CallGateway(s)
    \/ \E o \in GatewayBodies \cup GatewayErrors : GatewayReturn(s, o)
    \/ Close(s)

Next ==
    \/ \E t \in Instants : Tick(t)
    \/ \E s \in Slots : Step(s)

Spec == Init /\ [][Next]_vars

\* ------------------------------------------------------------ properties
\* The entries of times inside the trailing window that ends at T.
WindowCount(times, T) ==
    Cardinality({i \in 1..Len(times) :
                   times[i] <= T /\ T - times[i] < RATE_LIMIT_WINDOW})

CountOf(times, t) == Cardinality({i \in 1..Len(times) : times[i] = t})

\* Slot s takes the step that leaves position p.
Leaves(s, p) == pc[s] = p /\ pc'[s] # p

\* C1: while the clock has not been set back, for every identity and every
\* instant T at most RATE_LIMIT_REQUESTS of its attempts were admitted
\* inside the trailing window ending at T; an attempt that finds that many
\* admitted ones inside its window is rejected.
C1_QuotaNeverExceeded ==
    setbacks = 0 =>
        /\ \A u \in Users : \A T \in Instants :
              WindowCount(admitted[u], T) <= RATE_LIMIT_REQUESTS
        /\ \A s \in Slots :
              allowed[s] = "true" =>
                WindowCount(admitted[user_id[s]], current_time[s])
                    <= RATE_LIMIT_REQUESTS

\* An attempt was rejected with exactly RATE_LIMIT_REQUESTS admitted
\* attempts of its identity inside its window.
C1_Witness ==
    \E s \in Slots :
        /\ setbacks = 0
        /\ allowed[s] = "false"
        /\ WindowCount(admitted[user_id[s]], current_time[s]) = RATE_LIMIT_REQUESTS

\* An attempt of slot s is being decided, an admitted attempt of its
\* identity is at least a window old, and no attempt of that identity was
\* admitted since that one expired.
ExpiredSince(s) ==
    LET a == admitted[user_id[s]] IN
    \E i \in 1..Len(a) :
        /\ current_time[s] >= a[i] + RATE_LIMIT_WINDOW
        /\ \A j \in 1..Len(a) : a[j] < a[i] + RATE_LIMIT_WINDOW

\* C2: the purge keeps exactly the entries younger than RATE_LIMIT_WINDOW
\* (age = window is dropped), and the first attempt made a window or more
\* after an admitted one is admitted, whatever happened in between.
C2_WindowExpiry ==
    [][\A s \in Slots :
         /\ Leaves(s, "rate") =>
               \A t \in Instants :
                 CountOf(user_request_counts'[user_id[s]], t) =
                   IF current_time'[s] - t < RATE_LIMIT_WINDOW
                   THEN CountOf(user_request_counts[user_id[s]], t) ELSE 0
         /\ (Leaves(s, "crl_check") /\ ExpiredSince(s)) => allowed'[s] = "true"]_vars

\* An identity exhausted its quota at some instant and is admitted again
\* exactly RATE_LIMIT_WINDOW seconds later.
C2_Witness ==
    \E s \in Slots :
        /\ allowed[s] = "true"
        /\ LET a == admitted[user_id[s]] IN
           \E i \in 1..Len(a) :
               /\ current_time[s] - a[i] = RATE_LIMIT_WINDOW
               /\ WindowCount(a, a[i]) = RATE_LIMIT_REQUESTS

\* C3: a step changes the list of identity b only when it is a step of
\* check_rate_limit running for b, and (the window of an attempt being the
\* seconds before it, while the clock has not been set back) an attempt is
\* rejected exactly when its own identity has RATE_LIMIT_REQUESTS admitted
\* attempts in its window.
C3_IndependentQuotas ==
    [][/\ \A b \in Users :
            user_request_counts'[b] # user_request_counts[b] =>
              \E s \in Slots :
                  /\ user_id[s] = b
                  /\ Leaves(s, "rate") \/ Leaves(s, "crl_check")
       /\ \A s \in Slots :
            (Leaves(s, "crl_check") /\ setbacks = 0) =>
              (allowed'[s] = "false" <=>
                 WindowCount(admitted[user_id[s]], current_time[s])
                   >= RATE_LIMIT_REQUESTS)]_vars

\* One identity's list is full and an attempt of another one was admitted.
C3_Witness ==
    \E s \in Slots : \E a \in Users :
        /\ allowed[s] = "true"
        /\ a # user_id[s]
        /\ LimitExceeded(user_request_counts[a])
        /\ WindowCount(admitted[a], now) = RATE_LIMIT_REQUESTS


\* C4 as stated: check_rate_limit is not atomic, so while one invocation is
\* between its purge and its append another invocation can run.
C4_Original ==
    \A s \in Slots : \A o \in Slots \ {s} :
        (pc[s] = "crl_check" /\ pc[o] = "idle") => ENABLED Step(o)

\* C4, amended: while an invocation is between its purge and its append no
\* other invocation is in flight and no other step has changed the list it
\* purged; while the clock has not been set back that list is the list of
\* its identity's admitted attempts inside its window, and no identity has
\* more than RATE_LIMIT_REQUESTS admitted attempts inside the current window.
C4_AtomicAdmission ==
    /\ \A s \in Slots :
          pc[s] = "crl_check" =>
            /\ \A o \in Slots \ {s} : pc[o] = "idle"
            /\ user_request_counts[user_id[s]] =
                 Purge(user_request_counts[user_id[s]], current_time[s])
            /\ setbacks = 0 =>
                 Len(user_request_counts[user_id[s]]) =
                   WindowCount(admitted[user_id[s]], current_time[s])
    /\ setbacks = 0 =>
          \A u \in Users : WindowCount(admitted[u], now) <= RATE_LIMIT_REQUESTS

\* An invocation is between purge and append with one place left in its
\* identity's quota, where a second one slipping in would overshoot.
C4_Witness ==
    \E s \in Slots :
        /\ pc[s] = "crl_check"
        /\ Len(user_request_counts[user_id[s]]) = RATE_LIMIT_REQUESTS - 1

\* C5: while an invocation waits for the authenticator or for the gateway,
\* another request, a GET /health or a POST /invoke_model, can be started.
C5_NonBlocking ==
    \A s \in Slots : \A o \in Slots \ {s} :
        (pc[s] \in {"auth_wait", "gateway_wait"} /\ pc[o] = "idle") =>
            /\ ENABLED health_check(o)
            /\ Budget => ENABLED (\E r \in Requests : get_current_user(o, r))

\* C6: a POST without Authorization header is answered 401 "Authorization
\* header missing", with no authenticator, rate counter or gateway call.
C6_MissingHeader ==
    \A s \in Slots :
        (pc[s] = "done" /\ req[s].kind = "invoke" /\ req[s].cred = NoCred) =>
            /\ resp[s].status = 401
            /\ resp[s].detail = "Authorization header missing"
            /\ user_id[s] = ""
            /\ allowed[s] = "none"
            /\ upstream_calls[s] = << >>

AllowList == {MODELS[i] : i \in DOMAIN MODELS}

\* C7 as stated: every authenticated POST with a model outside the
\* allow-list is answered 400 listing the allow-list.
C7_Original ==
    \A s \in Slots :
        (pc[s] = "done" /\ req[s].kind = "invoke" /\ user_id[s] # ""
           /\ req[s].model \notin AllowList) =>
            /\ resp[s].status = 400
            /\ resp[s].models = MODELS

\* C7, amended: an authenticated POST with a model outside the allow-list
\* that the rate counter admitted is answered 400 with the whole allow-list
\* and the offending model, and no such POST ever reaches the gateway.
C7_UnsupportedModel ==
    \A s \in Slots :
        (req[s].kind = "invoke" /\ req[s].model \notin AllowList) =>
            /\ upstream_calls[s] = << >>
            /\ pc[s] # "gateway_wait"
            /\ (pc[s] = "done" /\ allowed[s] = "true") =>
                  /\ resp[s].status = 400
                  /\ resp[s].models = MODELS
                  /\ Len(resp[s].models) = 18
                  /\ resp[s].body = req[s].model

\* An admitted request for "not-a-real-model" was answered 400.
C7_Witness ==
    \E s \in Slots :
        /\ pc[s] = "done"
        /\ allowed[s] = "true"
        /\ req[s].model = "not-a-real-model"
        /\ resp[s].status = 400

\* C8: once the gateway call of a request has failed, whatever the error,
\* the response is 500 with exactly the generic detail and nothing of the
\* error in it, and the invocation ends like any other.
C8_UpstreamFailure ==
    \A s \in Slots :
        logged[s] # "" =>
            /\ pc[s] = "done"
            /\ resp[s].status = 500
            /\ resp[s].detail = "Failed to process request with OpenAI"
            /\ resp[s].body = ""
            /\ resp[s].models = << >>
            /\ ENABLED Close(s)

\* A gateway call failed with an invalid-key error and was answered.
C8_Witness ==
    \E s \in Slots :
        /\ logged[s] = "invalid_api_key"
        /\ Len(upstream_calls[s]) = 1
        /\ resp[s].status = 500

\* C9: an authenticated, admitted request with a supported model has made
\* one gateway call, with its own model and prompt, and with exactly the
\* web-search tool when web_search is set and no tool otherwise.
C9_GatewayArguments ==
    \A s \in Slots :
        (allowed[s] = "true" /\ req[s].model \in AllowList
           /\ pc[s] \in {"gateway_wait", "done"}) =>
            /\ Len(upstream_calls[s]) = 1
            /\ upstream_calls[s][1].model = req[s].model
            /\ upstream_calls[s][1].input = req[s].prompt
            /\ req[s].web_search =>
                  upstream_calls[s][1].tools = << [type |-> "web_search_preview"] >>
            /\ ~req[s].web_search => upstream_calls[s][1].tools = << >>

\* A gateway call is in progress for a request without web search.
C9_Witness ==
    \E s \in Slots :
        /\ pc[s] = "gateway_wait"
        /\ ~req[s].web_search
        /\ upstream_calls[s][1].tools = << >>

\* C10: when the count is compared with RATE_LIMIT_REQUESTS, every entry
\* of the identity's list is younger than RATE_LIMIT_WINDOW.
C10_PurgedBeforeCheck ==
    \A s \in Slots :
        pc[s] = "crl_check" =>
            LET times == user_request_counts[user_id[s]] IN
            \A i \in 1..Len(times) :
                current_time[s] - times[i] < RATE_LIMIT_WINDOW

\* An attempt about to be rejected, after a purge that dropped an entry.
C10_Witness ==
    \E s \in Slots :
        /\ pc[s] = "crl_check"
        /\ Len(user_request_counts[user_id[s]]) = RATE_LIMIT_REQUESTS
        /\ Len(admitted[user_id[s]]) > RATE_LIMIT_REQUESTS


\* C11: a rejected attempt leaves every list as the purge left it, an
\* admitted one appends exactly its own current_time to its identity's list,
\* and no list ever holds more than RATE_LIMIT_REQUESTS entries.
C11_RejectedNotRecorded ==
    [][/\ \A s \in Slots :
            Leaves(s, "crl_check") =>
              /\ allowed'[s] = "false" => user_request_counts' = user_request_counts
              /\ allowed'[s] = "true" =>
                    /\ user_request_counts'[user_id[s]] =
                         user_request_counts[user_id[s]] \o << current_time[s] >>
                    /\ \A u \in Users \ {user_id[s]} :
                          user_request_counts'[u] = user_request_counts[u]
       /\ \A u \in Users : Len(user_request_counts'[u]) <= RATE_LIMIT_REQUESTS]_vars

\* An attempt was rejected and its identity's list holds exactly
\* RATE_LIMIT_REQUESTS entries, none of them from a rejected attempt.
C11_Witness ==
    \E s \in Slots :
        /\ allowed[s] = "false"
        /\ resp[s].status = 429
        /\ Len(user_request_counts[user_id[s]]) = RATE_LIMIT_REQUESTS
        /\ Len(admitted[user_id[s]]) = RATE_LIMIT_REQUESTS


\* The response of a finished POST is that of the first step that failed:
\* authentication, then rate admission, then model validation, then the
\* upstream call.
FirstFailureDecides(s) ==
    /\ user_id[s] = "" =>
          /\ resp[s].status = 401
          /\ allowed[s] = "none"
          /\ upstream_calls[s] = << >>
    /\ allowed[s] = "false" =>
          /\ resp[s].status = 429
          /\ upstream_calls[s] = << >>
    /\ (allowed[s] = "true" /\ req[s].model \notin AllowList) =>
          /\ resp[s].status = 400
          /\ upstream_calls[s] = << >>
    /\ (allowed[s] = "true" /\ req[s].model \in AllowList) =>
          /\ resp[s].status \in {200, 500}
          /\ resp[s].status = 500 <=> logged[s] # ""

\* C12: every finished POST /invoke_model is answered by its first failing
\* step: 401 before 429, 429 before 400, 400 before 500.
C12_StepOrder ==
    \A s \in Slots :
        (pc[s] = "done" /\ req[s].kind = "invoke") => FirstFailureDecides(s)

\* The same order for the requests that carry an Authorization header.
C12_StepOrderWithHeader ==
    \A s \in Slots :
        (pc[s] = "done" /\ req[s].kind = "invoke" /\ req[s].cred # NoCred)
          => FirstFailureDecides(s)

\* A request for an unsupported model from an identity whose quota is used
\* up was answered 429.
C12_QuotaBeforeModel ==
    \E s \in Slots :
        /\ pc[s] = "done"
        /\ req[s].model \notin AllowList
        /\ allowed[s] = "false"
        /\ resp[s].status = 429


\* C13: a request makes at most one gateway call, also after the call
\* failed, and only once it is authenticated, admitted and its model found
\* in the allow-list; a request answered 400, 401, 403 or 429 made none.
C13_SingleGatewayCall ==
    \A s \in Slots :
        /\ Len(upstream_calls[s]) <= 1
        /\ upstream_calls[s] # << >> =>
              /\ user_id[s] # ""
              /\ allowed[s] = "true"
              /\ req[s].model \in AllowList
        /\ logged[s] # "" => Len(upstream_calls[s]) = 1
        /\ (pc[s] = "done" /\ resp[s].status \in {400, 401, 403, 429}) =>
              upstream_calls[s] = << >>

\* A request whose gateway call timed out was answered after that one call.
C13_Witness ==
    \E s \in Slots :
        /\ pc[s] = "done"
        /\ logged[s] = "timeout"
        /\ Len(upstream_calls[s]) = 1


\* C14: every answered POST /invoke_model request carries exactly one
\* response, whose status is one of 200, 400, 401, 429 or 500, and a slot
\* that answered is released for the next request.
C14_ResponseStatuses ==
    \A s \in Slots :
        (pc[s] = "done" /\ req[s].kind = "invoke") =>
            /\ resp[s] # NoResp
            /\ resp[s].status \in {200, 400, 401, 429, 500}
            /\ ENABLED Close(s)

\* The same for the requests that carry an Authorization header.
C14_ResponseStatusesWithHeader ==
    \A s \in Slots :
        (pc[s] = "done" /\ req[s].kind = "invoke" /\ req[s].cred # NoCred) =>
            /\ resp[s] # NoResp
            /\ resp[s].status \in {200, 400, 401, 429, 500}
            /\ ENABLED Close(s)

\* A list in non-decreasing timestamp order.
Chronological(times) ==
    \A i, j \in DOMAIN times : i < j => times[i] <= times[j]

\* C15: every identity's list is in non-decreasing timestamp order.
C15_Chronological ==
    \A u \in Users : Chronological(user_request_counts[u])

\* The same while the wall clock has not been set back.
C15_ChronologicalSteadyClock ==
    setbacks = 0 => \A u \in Users : Chronological(user_request_counts[u])

\* A list holds an attempt stamped after a later one: the clock was set
\* back between the two.
C15_OutOfOrder ==
    \E s \in Slots :
        /\ allowed[s] = "true"
        /\ setbacks > 0
        /\ ~Chronological(user_request_counts[user_id[s]])

\* C16: an admitted attempt keeps its quota slot however the request ends:
\* while its timestamp is younger than the window it is in its identity's
\* list, also after the request was answered 400 or 500, and (while the
\* clock has not been set back) the list holds every unexpired instant of
\* the clock as often as attempts were admitted at it.
C16_NoRollback ==
    /\ \A s \in Slots :
          (allowed[s] = "true" /\ now - current_time[s] < RATE_LIMIT_WINDOW) =>
              Contains(user_request_counts[user_id[s]], current_time[s])
    /\ \A u \in Users : \A t \in Instants :
          (setbacks = 0 /\ now - t < RATE_LIMIT_WINDOW) =>
              CountOf(user_request_counts[u], t) = CountOf(admitted[u], t)

\* An admitted request has been answered 500 and its timestamp is one of
\* the entries that fill its identity's quota.
C16_Witness ==
    \E s \in Slots :
        /\ pc[s] = "done"
        /\ allowed[s] = "true"
        /\ resp[s].status = 500
        /\ Contains(user_request_counts[user_id[s]], current_time[s])
        /\ LimitExceeded(user_request_counts[user_id[s]])

\* The same for an admitted request answered 400.
C16_WitnessUnsupported ==
    \E s \in Slots :
        /\ pc[s] = "done"
        /\ allowed[s] = "true"
        /\ resp[s].status = 400
        /\ Contains(user_request_counts[user_id[s]], current_time[s])
        /\ LimitExceeded(user_request_counts[user_id[s]])

\* C17: a step of a /health request, or of a request that has no identity
\* (missing header, token not resolved, authenticator error), changes no
\* list; a step of a request with an identity changes at most the list of
\* that identity, which is the one its token resolves to; and a request
\* answered without an identity never entered check_rate_limit.
C17_LogUntouchedWithoutIdentity ==
    [][\A s \in Slots :
          pc'[s] # pc[s] =>
            /\ (req'[s].kind = "health" \/ user_id'[s] = "") =>
                  user_request_counts' = user_request_counts
            /\ user_id'[s] # "" =>
                  /\ req'[s].kind = "invoke"
                  /\ user_id'[s] = TokenUser(req'[s].cred)
                  /\ \A u \in Users \ {user_id'[s]} :
                        user_request_counts'[u] = user_request_counts[u]
            /\ (pc'[s] = "done" /\ user_id'[s] = "") =>
                  /\ allowed'[s] = "none"
                  /\ current_time'[s] = 0]_vars

\* A request with a token that does not resolve has been answered 401 while
\* the log holds entries.
C17_Witness ==
    \E s \in Slots :
        /\ pc[s] = "done"
        /\ req[s].kind = "invoke"
        /\ req[s].cred = "bad"
        /\ resp[s].status = 401
        /\ \E u \in Users : user_request_counts[u] # << >>

\* The same for a /health request and for a request without a header.
C17_WitnessHealth ==
    \E s \in Slots :
        /\ pc[s] = "done"
        /\ req[s].kind = "health" \/ req[s].cred = NoCred
        /\ \A u \in Users : user_request_counts[u] # << >>

====
